---- MODULE Spec2Model ----
(***************************************************************************)
(* Model of the hierarchical vector-index lifecycle of                     *)
(* app/utils/rag_chain.py: the module-level tables _base_vector_db,        *)
(* _subject_dbs, _student_dbs and _merged_dbs, and the operations          *)
(* create_vector_db (EnsureIndex) and get_hierarchical_db                  *)
(* (ResolveForQuery) that read and write them.                             *)
(*                                                                         *)
(* A vector store is modelled by the sequence of document chunks it holds  *)
(* (FAISS.index_to_docstore_id order).  Environment assumptions: the API   *)
(* keys are configured (so _initialize_embeddings returns) and an          *)
(* index.faiss that exists on disk can be loaded.  The embedding provider  *)
(* and the PDF loader may fail on any call.                                *)
(***************************************************************************)
EXTENDS Integers, Sequences, FiniteSets, TLC

\* ---------------------------------------------------------------- bounds
\* Uploaded PDFs are numbered 0..MaxFile; file 0 has no extractable text.
MaxFile == 2
\* The subjects and the students of the database, by primary key.
SubjectIds == {1}
UserIds == {1}

\* ------------------------------------------------------------ Python values
\* Python None, and a present value x, as sequences of length 0 and 1.
None == <<>>
Some(x) == <<x>>
Val(o) == o[1]

\* A Python dict as a function whose domain is the set of keys present.
DictSet(d, k, v) == [x \in (DOMAIN d) \cup {k} |-> IF x = k THEN v ELSE d[x]]
DictDel(d, k) == [x \in (DOMAIN d) \ {k} |-> d[x]]
EmptyDict == [x \in {} |-> None]

\* ------------------------------------------------------------------- keys
\* A subject id reaches create_vector_db as the int Subject.id
\* (initialize_vector_db) or as the form string (dashboard upload); the two
\* are different dict keys with the same str().  User ids are always ints.
SubjectKeys == {<<ty, i>> : ty \in {"int", "str"}, i \in SubjectIds}
UserKeys == {<<"int", i>> : i \in UserIds}
\* Keys get_hierarchical_db is called with: ask_question converts with int(),
\* generate_quiz_questions passes Subject.id.
QuerySubjectKeys == {<<"int", i>> : i \in SubjectIds}

\* str(key): the decimal text, represented by the number it spells.
Str(k) == k[2]

\* f"subject_{subject_id}" and f"student_{user_id}"
SubjectMergedKey(k) == <<"subject", Str(k)>>
StudentMergedKey(k) == <<"student", Str(k)>>
MergedKeys == {SubjectMergedKey(k) : k \in SubjectKeys} \cup {StudentMergedKey(k) : k \in UserKeys}

\* save_path of create_vector_db
BASE_VECTOR_DIR == <<"base", 0>>
SubjectPath(k) == <<"subjects", Str(k)>>
StudentPath(k) == <<"students", Str(k)>>
Paths == {BASE_VECTOR_DIR} \cup {SubjectPath(k) : k \in SubjectKeys} \cup {StudentPath(k) : k \in UserKeys}

\* --------------------------------------------------------------- documents
Files == 0..MaxFile

\* The file_paths argument: the empty file alone, or the first n files.
FilePathLists == {<<0>>} \cup {[i \in 1..n |-> i] : n \in 1..MaxFile}

\* PyPDFLoader + RecursiveCharacterTextSplitter: file 0 yields no chunk, any
\* other file one chunk named after it.
RECURSIVE SplitDocuments(_)
SplitDocuments(file_paths) == IF file_paths = <<>> THEN <<>> ELSE (IF Head(file_paths) = 0 THEN <<>> ELSE <<Head(file_paths)>>) \o SplitDocuments(Tail(file_paths))

Range(s) == {s[i] : i \in 1..Len(s)}

\* Vector stores a deployment can have on disk at start-up.
StoredIndexes == {<<1>>}

\* threads: the request threads inside create_vector_db or
\* get_hierarchical_db, each with its position and locals.  quiz: the text
\* generate_quiz_questions has to parse (raw_output), num_questions, and
\* after the parse its question_blocks and what the loop made of them.
VARIABLES base_vector_db, subject_dbs, student_dbs, merged_dbs, disk, lastOp, threads, quiz

vars == <<base_vector_db, subject_dbs, student_dbs, merged_dbs, disk, lastOp, threads, quiz>>

\* The record of the last call: its arguments, what it returned or raised,
\* and the work it did (num_questions and difficulty_level are arguments of
\* generate_quiz_questions only).
NoCall == [op |-> "none", subject_id |-> None, user_id |-> None, is_base |-> FALSE, split_docs |-> <<>>, outcome |-> "none", ret |-> None, embedded |-> 0, merges |-> 0, target |-> <<"none", None>>, prior |-> None, num_questions |-> 0, difficulty_level |-> 0]

\* No request thread is inside a call; no quiz text has been produced.
ThreadIds == {1, 2}
IdleThread == [pc |-> "idle", target |-> <<"none", None>>, split_docs |-> <<>>, db1 |-> <<>>, db2 |-> <<>>, outcome |-> "none", quiet |-> FALSE, changed |-> FALSE, stale |-> FALSE]
NoThreads == [t \in ThreadIds |-> IdleThread]
NoQuiz == [raw_output |-> <<>>, num_questions |-> 0, question_blocks |-> <<>>, result |-> None]

\* Module import: empty tables; the vector_store directory holds whatever
\* index.faiss files the deployment has.
Init ==
    /\ base_vector_db = None
    /\ subject_dbs = EmptyDict
    /\ student_dbs = EmptyDict
    /\ merged_dbs = EmptyDict
    /\ disk \in [Paths -> {None} \cup {Some(c) : c \in StoredIndexes}]
    /\ lastOp = NoCall
    /\ threads = NoThreads
    /\ quiz = NoQuiz

\* os.path.isfile(os.path.join(save_path, 'index.faiss'))
IndexOnDisk(p) == disk[p] # None

\* ------------------------------------------------------- create_vector_db
\* Variant of Target in which a subject id wins over is_base.
TargetSubjectFirst(is_base, subject_id, user_id) ==
    IF subject_id # None THEN <<"subject", Val(subject_id)>>
    ELSE IF is_base THEN <<"base", None>>
    ELSE IF user_id # None THEN <<"student", Val(user_id)>>
    ELSE <<"none", None>>

\* Which table the call works on: is_base wins over subject_id, subject_id
\* over user_id; with none of them the call raises ValueError.
Target(is_base, subject_id, user_id) ==
    IF is_base THEN <<"base", None>>
    ELSE IF subject_id # None THEN <<"subject", Val(subject_id)>>
    ELSE IF user_id # None THEN <<"student", Val(user_id)>>
    ELSE <<"none", None>>

SavePath(target) ==
    IF target[1] = "base" THEN BASE_VECTOR_DIR
    ELSE IF target[1] = "subject" THEN SubjectPath(target[2])
    ELSE StudentPath(target[2])

\* The entry of a target in the tables (base, subjects, students), None
\* when there is none.
HandleIn(base, subjects, students, target) ==
    IF target[1] = "base" THEN base
    ELSE IF target[1] = "subject" THEN (IF target[2] \in DOMAIN subjects THEN Some(subjects[target[2]]) ELSE None)
    ELSE IF target[1] = "student" THEN (IF target[2] \in DOMAIN students THEN Some(students[target[2]]) ELSE None)
    ELSE None

Handle(target) == HandleIn(base_vector_db, subject_dbs, student_dbs, target)

\* Assignment of vector_db to the global of the target; nothing else changes.
Register(target, vector_db) ==
    /\ base_vector_db' = IF target[1] = "base" THEN Some(vector_db) ELSE base_vector_db
    /\ subject_dbs' = IF target[1] = "subject" THEN DictSet(subject_dbs, target[2], vector_db) ELSE subject_dbs
    /\ student_dbs' = IF target[1] = "student" THEN DictSet(student_dbs, target[2], vector_db) ELSE student_dbs

\* Variants of InvalidateMerged with a slip in the invalidation: a subject or
\* student build that leaves its entry in place, a Base build that forgets
\* the student entries, and a build that always empties the cache.
InvalidateMergedKeepsScope(target, merged) ==
    IF target[1] = "base" THEN EmptyDict ELSE merged

InvalidateMergedBaseKeepsStudents(target, merged) ==
    IF target[1] = "base" THEN [mk \in {x \in DOMAIN merged : x[1] = "student"} |-> merged[mk]]
    ELSE IF target[1] = "subject" THEN DictDel(merged, SubjectMergedKey(target[2]))
    ELSE DictDel(merged, StudentMergedKey(target[2]))

InvalidateMergedAlwaysAll(target, merged) == EmptyDict

\* _merged_dbs after a build: emptied for Base, else the entry of the
\* target's merged key deleted when present.
InvalidateMerged(target, merged) ==
    IF target[1] = "base" THEN EmptyDict
    ELSE IF target[1] = "subject" THEN DictDel(merged, SubjectMergedKey(target[2]))
    ELSE DictDel(merged, StudentMergedKey(target[2]))

\* The record of a create_vector_db call; split_docs is its local variable,
\* left empty on the paths that return or raise before the split; prior is
\* the table entry of the target when the call started.
Call(subject_id, user_id, is_base, split_docs, outcome, ret, embedded) ==
    [op |-> "create_vector_db", subject_id |-> subject_id, user_id |-> user_id, is_base |-> is_base, split_docs |-> split_docs, outcome |-> outcome, ret |-> ret, embedded |-> embedded, merges |-> 0, target |-> Target(is_base, subject_id, user_id), prior |-> Handle(Target(is_base, subject_id, user_id)), num_questions |-> 0, difficulty_level |-> 0]

\* No is_base, subject_id or user_id: ValueError before anything else.
CreateNoTarget(file_paths, subject_id, user_id, is_base) ==
    /\ Target(is_base, subject_id, user_id)[1] = "none"
    /\ lastOp' = Call(subject_id, user_id, is_base, <<>>, "ValueError:target", None, 0)
    /\ UNCHANGED <<base_vector_db, subject_dbs, student_dbs, merged_dbs, disk, threads, quiz>>

\* Variant of CreateLoad that invalidates the merged cache as a build does.
CreateLoadInvalidates(file_paths, subject_id, user_id, is_base) ==
    LET target == Target(is_base, subject_id, user_id) IN
    /\ target[1] # "none"
    /\ IndexOnDisk(SavePath(target))
    /\ LET vector_db == Val(disk[SavePath(target)]) IN
        /\ Register(target, vector_db)
        /\ lastOp' = Call(subject_id, user_id, is_base, <<>>, "loaded", Some(Len(vector_db)), 0)
    /\ merged_dbs' = InvalidateMerged(target, merged_dbs)
    /\ UNCHANGED <<disk, threads, quiz>>

\* index.faiss exists under save_path: the stored index is loaded and
\* registered, its size returned; file_paths is not looked at.
CreateLoad(file_paths, subject_id, user_id, is_base) ==
    LET target == Target(is_base, subject_id, user_id) IN
    /\ target[1] # "none"
    /\ IndexOnDisk(SavePath(target))
    /\ LET vector_db == Val(disk[SavePath(target)]) IN
        /\ Register(target, vector_db)
        /\ lastOp' = Call(subject_id, user_id, is_base, <<>>, "loaded", Some(Len(vector_db)), 0)
    /\ UNCHANGED <<merged_dbs, disk, threads, quiz>>

\* Variant of CreateEmpty that goes on to build and register a store with
\* no chunk.
CreateEmptyRegisters(file_paths, subject_id, user_id, is_base) ==
    LET target == Target(is_base, subject_id, user_id) IN
    /\ target[1] # "none"
    /\ ~IndexOnDisk(SavePath(target))
    /\ SplitDocuments(file_paths) = <<>>
    /\ Register(target, <<>>)
    /\ merged_dbs' = InvalidateMerged(target, merged_dbs)
    /\ lastOp' = Call(subject_id, user_id, is_base, <<>>, "built", Some(0), 0)
    /\ UNCHANGED <<disk, threads, quiz>>

\* No stored index and the files yield no chunk: ValueError.
CreateEmpty(file_paths, subject_id, user_id, is_base) ==
    LET target == Target(is_base, subject_id, user_id) IN
    /\ target[1] # "none"
    /\ ~IndexOnDisk(SavePath(target))
    /\ SplitDocuments(file_paths) = <<>>
    /\ lastOp' = Call(subject_id, user_id, is_base, <<>>, "ValueError:empty", None, 0)
    /\ UNCHANGED <<base_vector_db, subject_dbs, student_dbs, merged_dbs, disk, threads, quiz>>

\* Variant of CreateFail that invalidates the merged cache before the build
\* that raises.
CreateFailAfterInvalidate(file_paths, subject_id, user_id, is_base) ==
    LET target == Target(is_base, subject_id, user_id) IN
    /\ target[1] # "none"
    /\ ~IndexOnDisk(SavePath(target))
    /\ SplitDocuments(file_paths) # <<>>
    /\ merged_dbs' = InvalidateMerged(target, merged_dbs)
    /\ lastOp' = Call(subject_id, user_id, is_base, SplitDocuments(file_paths), "Exception:provider", None, 0)
    /\ UNCHANGED <<base_vector_db, subject_dbs, student_dbs, disk, threads, quiz>>

\* No stored index and FAISS.from_documents (or the loader before it)
\* raises: the assignment and the invalidation after it are not reached.
CreateFail(file_paths, subject_id, user_id, is_base) ==
    LET target == Target(is_base, subject_id, user_id) IN
    /\ target[1] # "none"
    /\ ~IndexOnDisk(SavePath(target))
    /\ SplitDocuments(file_paths) # <<>>
    /\ lastOp' = Call(subject_id, user_id, is_base, SplitDocuments(file_paths), "Exception:provider", None, 0)
    /\ UNCHANGED <<base_vector_db, subject_dbs, student_dbs, merged_dbs, disk, threads, quiz>>

\* Variant of CreateBuild that registers the new store and leaves the merged
\* cache as it is.
CreateBuildNoInvalidate(file_paths, subject_id, user_id, is_base) ==
    LET target == Target(is_base, subject_id, user_id)
        split_docs == SplitDocuments(file_paths) IN
    /\ target[1] # "none"
    /\ ~IndexOnDisk(SavePath(target))
    /\ split_docs # <<>>
    /\ Register(target, split_docs)
    /\ lastOp' = Call(subject_id, user_id, is_base, split_docs, "built", Some(Len(split_docs)), Len(split_docs))
    /\ UNCHANGED <<merged_dbs, disk, threads, quiz>>

\* No stored index: every chunk is embedded, the new store is registered in
\* memory, the merged cache is invalidated, len(split_docs) is returned.
\* Nothing is written to save_path.
CreateBuild(file_paths, subject_id, user_id, is_base) ==
    LET target == Target(is_base, subject_id, user_id)
        split_docs == SplitDocuments(file_paths) IN
    /\ target[1] # "none"
    /\ ~IndexOnDisk(SavePath(target))
    /\ split_docs # <<>>
    /\ Register(target, split_docs)
    /\ merged_dbs' = InvalidateMerged(target, merged_dbs)
    /\ lastOp' = Call(subject_id, user_id, is_base, split_docs, "built", Some(Len(split_docs)), Len(split_docs))
    /\ UNCHANGED <<disk, threads, quiz>>

create_vector_db(file_paths, subject_id, user_id, is_base) ==
    \/ CreateNoTarget(file_paths, subject_id, user_id, is_base)
    \/ CreateLoad(file_paths, subject_id, user_id, is_base)
    \/ CreateEmpty(file_paths, subject_id, user_id, is_base)
    \/ CreateFail(file_paths, subject_id, user_id, is_base)
    \/ CreateBuild(file_paths, subject_id, user_id, is_base)

\* Arguments the signature allows beyond those: a subject id together with
\* a user id, with is_base set or not.
CombinedArgs == {<<Some(k), Some(u), b>> : k \in QuerySubjectKeys, u \in UserKeys, b \in BOOLEAN}

\* Arguments the routes pass: is_base=True (admin upload_base_documents),
\* subject_id (dashboard upload, initialize_vector_db), user_id (chat
\* upload_pdf, dashboard upload), or none of them (main upload route).
CreateArgs ==
    {<<None, None, TRUE>>, <<None, None, FALSE>>}
    \cup {<<Some(k), None, FALSE>> : k \in SubjectKeys}
    \cup {<<None, Some(k), FALSE>> : k \in UserKeys}
    \cup CombinedArgs

EnsureIndex ==
    \E file_paths \in FilePathLists, a \in CreateArgs :
        create_vector_db(file_paths, a[1], a[2], a[3])

\* ---------------------------------------------------- get_hierarchical_db
\* Variant of merge_vector_dbs that indexes the documents of db1 only.
merge_vector_dbs_docs1_only(db1, db2) == [docs |-> db1, db1 |-> db1, db2 |-> db2]

\* FAISS.from_documents(docs1 + docs2): one store over the documents of
\* both, every one of them embedded again.  The entry remembers the two
\* stores it was built from.
merge_vector_dbs(db1, db2) == [docs |-> db1 \o db2, db1 |-> db1, db2 |-> db2]

\* _base_vector_db after the load-on-demand of lines 195-196.
BaseAfterLoad == IF base_vector_db = None /\ IndexOnDisk(BASE_VECTOR_DIR) THEN disk[BASE_VECTOR_DIR] ELSE base_vector_db

\* Variant of Selected that looks at the subject before the student.
SelectedSubjectFirst(subject_id, user_id) ==
    IF subject_id # None /\ Val(subject_id) \in DOMAIN subject_dbs THEN <<"subject", Val(subject_id)>>
    ELSE IF user_id # None /\ Val(user_id) \in DOMAIN student_dbs THEN <<"student", Val(user_id)>>
    ELSE <<"base", None>>

\* The scope the call resolves: the student when user_id has a store, else
\* the subject when subject_id has one, else Base.
Selected(subject_id, user_id) ==
    IF user_id # None /\ Val(user_id) \in DOMAIN student_dbs THEN <<"student", Val(user_id)>>
    ELSE IF subject_id # None /\ Val(subject_id) \in DOMAIN subject_dbs THEN <<"subject", Val(subject_id)>>
    ELSE <<"base", None>>

MergedKey(target) == IF target[1] = "student" THEN StudentMergedKey(target[2]) ELSE SubjectMergedKey(target[2])

\* The merged entry of a scope when the call starts, None when there is none.
CachedAtStart(target) ==
    IF target[1] # "base" /\ MergedKey(target) \in DOMAIN merged_dbs THEN Some(merged_dbs[MergedKey(target)]) ELSE None

\* The record of a get_hierarchical_db call; prior is the merged entry of
\* the resolved scope when the call started.
Query(subject_id, user_id, outcome, ret, embedded, merges) ==
    [op |-> "get_hierarchical_db", subject_id |-> subject_id, user_id |-> user_id, is_base |-> FALSE, split_docs |-> <<>>, outcome |-> outcome, ret |-> ret, embedded |-> embedded, merges |-> merges, target |-> Selected(subject_id, user_id), prior |-> CachedAtStart(Selected(subject_id, user_id)), num_questions |-> 0, difficulty_level |-> 0]

\* Variant of ResolveBase that returns None instead of raising when a
\* context is given and there is no Base store.
ResolveBaseReturnsNone(subject_id, user_id) ==
    /\ Selected(subject_id, user_id)[1] = "base"
    /\ base_vector_db' = BaseAfterLoad
    /\ lastOp' = IF BaseAfterLoad # None THEN Query(subject_id, user_id, "base", BaseAfterLoad, 0, 0)
                  ELSE Query(subject_id, user_id, "None", None, 0, 0)
    /\ UNCHANGED <<subject_dbs, student_dbs, merged_dbs, disk, threads, quiz>>

\* Variant of ResolveBase that keeps the Base store it returns in the merged
\* cache.
ResolveBaseCachesBase(subject_id, user_id) ==
    /\ Selected(subject_id, user_id)[1] = "base"
    /\ base_vector_db' = BaseAfterLoad
    /\ merged_dbs' = IF BaseAfterLoad # None THEN DictSet(merged_dbs, <<"base", 0>>, merge_vector_dbs(Val(BaseAfterLoad), <<>>)) ELSE merged_dbs
    /\ lastOp' = IF BaseAfterLoad # None THEN Query(subject_id, user_id, "base", BaseAfterLoad, 0, 0)
                  ELSE IF subject_id = None /\ user_id = None THEN Query(subject_id, user_id, "None", None, 0, 0)
                  ELSE Query(subject_id, user_id, "ValueError", None, 0, 0)
    /\ UNCHANGED <<subject_dbs, student_dbs, disk, threads, quiz>>

\* Variant of ResolveBase that loads the index of the subject from disk
\* when the subject has no store, as it does for Base.
ResolveBaseLoadsSubject(subject_id, user_id) ==
    LET load == subject_id # None /\ IndexOnDisk(SubjectPath(Val(subject_id))) IN
    /\ Selected(subject_id, user_id)[1] = "base"
    /\ base_vector_db' = BaseAfterLoad
    /\ subject_dbs' = IF load THEN DictSet(subject_dbs, Val(subject_id), Val(disk[SubjectPath(Val(subject_id))])) ELSE subject_dbs
    /\ lastOp' = IF load THEN Query(subject_id, user_id, "own", disk[SubjectPath(Val(subject_id))], 0, 0)
                  ELSE IF BaseAfterLoad # None THEN Query(subject_id, user_id, "base", BaseAfterLoad, 0, 0)
                  ELSE IF subject_id = None /\ user_id = None THEN Query(subject_id, user_id, "None", None, 0, 0)
                  ELSE Query(subject_id, user_id, "ValueError", None, 0, 0)
    /\ UNCHANGED <<student_dbs, merged_dbs, disk, threads, quiz>>

\* No context, or no store for the context: the Base store.  With a context
\* and no Base store the call raises ValueError; with no context it
\* returns _base_vector_db as it is, None included.
ResolveBase(subject_id, user_id) ==
    /\ Selected(subject_id, user_id)[1] = "base"
    /\ base_vector_db' = BaseAfterLoad
    /\ lastOp' = IF BaseAfterLoad # None THEN Query(subject_id, user_id, "base", BaseAfterLoad, 0, 0)
                  ELSE IF subject_id = None /\ user_id = None THEN Query(subject_id, user_id, "None", None, 0, 0)
                  ELSE Query(subject_id, user_id, "ValueError", None, 0, 0)
    /\ UNCHANGED <<subject_dbs, student_dbs, merged_dbs, disk, threads, quiz>>

\* Variant of ResolveScope whose merge recombines stored vectors and calls
\* the embedding function for no chunk.
ResolveScopeNoEmbed(subject_id, user_id) ==
    LET target == Selected(subject_id, user_id)
        merged_key == MergedKey(target)
        own == Val(Handle(target))
        make == merged_key \notin DOMAIN merged_dbs /\ BaseAfterLoad # None
        merged == IF make THEN DictSet(merged_dbs, merged_key, merge_vector_dbs(own, Val(BaseAfterLoad))) ELSE merged_dbs IN
    /\ target[1] # "base"
    /\ base_vector_db' = BaseAfterLoad
    /\ merged_dbs' = merged
    /\ lastOp' = IF merged_key \in DOMAIN merged
                  THEN Query(subject_id, user_id, "merged", Some(merged[merged_key]), 0, IF make THEN 1 ELSE 0)
                  ELSE Query(subject_id, user_id, "own", Some(own), 0, 0)
    /\ UNCHANGED <<subject_dbs, student_dbs, disk, threads, quiz>>

\* Variants of ResolveScope: one that makes and caches a merge when there is
\* no Base store, one that makes the merge again when it is cached.
ResolveScopeCachesWithoutBase(subject_id, user_id) ==
    LET target == Selected(subject_id, user_id)
        merged_key == MergedKey(target)
        own == Val(Handle(target))
        make == merged_key \notin DOMAIN merged_dbs
        base == IF BaseAfterLoad # None THEN Val(BaseAfterLoad) ELSE <<>>
        merged == IF make THEN DictSet(merged_dbs, merged_key, merge_vector_dbs(own, base)) ELSE merged_dbs IN
    /\ target[1] # "base"
    /\ base_vector_db' = BaseAfterLoad
    /\ merged_dbs' = merged
    /\ lastOp' = Query(subject_id, user_id, "merged", Some(merged[merged_key]), IF make THEN Len(merged[merged_key].docs) ELSE 0, IF make THEN 1 ELSE 0)
    /\ UNCHANGED <<subject_dbs, student_dbs, disk, threads, quiz>>

ResolveScopeAlwaysMerges(subject_id, user_id) ==
    LET target == Selected(subject_id, user_id)
        merged_key == MergedKey(target)
        own == Val(Handle(target))
        make == BaseAfterLoad # None
        merged == IF make THEN DictSet(merged_dbs, merged_key, merge_vector_dbs(own, Val(BaseAfterLoad))) ELSE merged_dbs IN
    /\ target[1] # "base"
    /\ base_vector_db' = BaseAfterLoad
    /\ merged_dbs' = merged
    /\ lastOp' = IF merged_key \in DOMAIN merged
                  THEN Query(subject_id, user_id, "merged", Some(merged[merged_key]), IF make THEN Len(merged[merged_key].docs) ELSE 0, IF make THEN 1 ELSE 0)
                  ELSE Query(subject_id, user_id, "own", Some(own), 0, 0)
    /\ UNCHANGED <<subject_dbs, student_dbs, disk, threads, quiz>>

\* A store for the context: its merged entry when there is one or one can
\* be made (Base present), else the store itself.
ResolveScope(subject_id, user_id) ==
    LET target == Selected(subject_id, user_id)
        merged_key == MergedKey(target)
        own == Val(Handle(target))
        make == merged_key \notin DOMAIN merged_dbs /\ BaseAfterLoad # None
        merged == IF make THEN DictSet(merged_dbs, merged_key, merge_vector_dbs(own, Val(BaseAfterLoad))) ELSE merged_dbs IN
    /\ target[1] # "base"
    /\ base_vector_db' = BaseAfterLoad
    /\ merged_dbs' = merged
    /\ lastOp' = IF merged_key \in DOMAIN merged
                  THEN Query(subject_id, user_id, "merged", Some(merged[merged_key]), IF make THEN Len(merged[merged_key].docs) ELSE 0, IF make THEN 1 ELSE 0)
                  ELSE Query(subject_id, user_id, "own", Some(own), 0, 0)
    /\ UNCHANGED <<subject_dbs, student_dbs, disk, threads, quiz>>

\* merge_vector_dbs raises (the embedding provider fails): the exception
\* leaves get_hierarchical_db; no entry is stored.
ResolveMergeFail(subject_id, user_id) ==
    LET target == Selected(subject_id, user_id) IN
    /\ target[1] # "base"
    /\ MergedKey(target) \notin DOMAIN merged_dbs
    /\ BaseAfterLoad # None
    /\ base_vector_db' = BaseAfterLoad
    /\ lastOp' = Query(subject_id, user_id, "Exception:provider", None, 0, 1)
    /\ UNCHANGED <<subject_dbs, student_dbs, merged_dbs, disk, threads, quiz>>

get_hierarchical_db(subject_id, user_id) ==
    \/ ResolveBase(subject_id, user_id)
    \/ ResolveScope(subject_id, user_id)
    \/ ResolveMergeFail(subject_id, user_id)

ResolveForQuery ==
    \E subject_id \in {None} \cup {Some(k) : k \in QuerySubjectKeys}, user_id \in {None} \cup {Some(k) : k \in UserKeys} :
        get_hierarchical_db(subject_id, user_id)

\* --------------------------------------------------- get_vector_db_status
\* The entry of Base: Ready with the size of the store when there is one.
BaseStatus ==
    IF base_vector_db # None THEN [status |-> "Ready", chunk_count |-> Len(Val(base_vector_db))]
    ELSE [status |-> "Not initialized", chunk_count |-> 0]

\* The entry of a subject or a student of the database, looked up under
\* its integer id; merged_with_base tells whether its merged key is cached.
ScopeStatus(dbs, k, merged_key) ==
    [status |-> IF k \in DOMAIN dbs THEN "Ready" ELSE "Not initialized",
     chunk_count |-> IF k \in DOMAIN dbs THEN Len(dbs[k]) ELSE 0,
     merged_with_base |-> merged_key \in DOMAIN merged_dbs]

VectorDbStatus ==
    [base |-> BaseStatus,
     subjects |-> [i \in SubjectIds |-> ScopeStatus(subject_dbs, <<"int", i>>, SubjectMergedKey(<<"int", i>>))],
     students |-> [i \in UserIds |-> ScopeStatus(student_dbs, <<"int", i>>, StudentMergedKey(<<"int", i>>))],
     merged |-> Cardinality(DOMAIN merged_dbs)]

\* The call reads the tables and returns the report; it assigns nothing.
get_vector_db_status ==
    /\ lastOp' = [NoCall EXCEPT !.op = "get_vector_db_status", !.outcome = "returned", !.ret = Some(VectorDbStatus)]
    /\ UNCHANGED <<base_vector_db, subject_dbs, student_dbs, merged_dbs, disk, threads, quiz>>

Next == EnsureIndex \/ ResolveForQuery \/ get_vector_db_status

Spec == Init /\ [][Next]_vars

\* ------------------------------------------------ calls of request threads
\* The module globals are shared by the request threads of the server and
\* no function of rag_chain.py takes a lock; a thread can be preempted
\* between any two statements.  The steps below are the statements of
\* create_vector_db (build path) and get_hierarchical_db that read or write
\* the globals.  A thread record holds the position (pc), the locals, the
\* outcome of the thread's last call, and three notes about a resolve:
\* quiet (no Base build was in flight when it started), changed
\* (_base_vector_db was assigned while it ran), stale (the merged entry it
\* returned was not built from _base_vector_db as it was at the return).
BaseBuildInFlight == \E u \in ThreadIds : threads[u].pc \in {"build", "invalidate"} /\ threads[u].target[1] = "base"

\* _base_vector_db is assigned: every resolve in flight has seen a change.
NoteBaseChange(th, t, target) ==
    [u \in ThreadIds |->
        IF u = t THEN th[u]
        ELSE IF target[1] = "base" /\ th[u].pc \in {"cond", "merge", "has", "return"} THEN [th[u] EXCEPT !.changed = TRUE]
        ELSE th[u]]

\* create_vector_db up to the call of FAISS.from_documents: the target is
\* chosen, the files are split, the chunks are not empty.
ThreadCreateStart(t, file_paths, subject_id, user_id, is_base) ==
    LET target == Target(is_base, subject_id, user_id) IN
    /\ threads[t].pc = "idle"
    /\ target[1] # "none"
    /\ ~IndexOnDisk(SavePath(target))
    /\ SplitDocuments(file_paths) # <<>>
    /\ threads' = [threads EXCEPT ![t] = [IdleThread EXCEPT !.pc = "build", !.target = target, !.split_docs = SplitDocuments(file_paths)]]
    /\ UNCHANGED <<base_vector_db, subject_dbs, student_dbs, merged_dbs, disk, lastOp, quiz>>

\* FAISS.from_documents returns and its result is assigned to the global
\* of the target.
ThreadCreateAssign(t) ==
    /\ threads[t].pc = "build"
    /\ Register(threads[t].target, threads[t].split_docs)
    /\ threads' = NoteBaseChange([threads EXCEPT ![t].pc = "invalidate"], t, threads[t].target)
    /\ UNCHANGED <<merged_dbs, disk, lastOp, quiz>>

\* FAISS.from_documents raises: the call ends, nothing was assigned.
ThreadCreateFail(t) ==
    /\ threads[t].pc = "build"
    /\ threads' = [threads EXCEPT ![t] = [IdleThread EXCEPT !.outcome = "Exception:provider"]]
    /\ UNCHANGED <<base_vector_db, subject_dbs, student_dbs, merged_dbs, disk, lastOp, quiz>>

\* The statement after the assignment: _merged_dbs = {} for Base, del of
\* the target's entry otherwise; then the call returns.
ThreadCreateInvalidate(t) ==
    /\ threads[t].pc = "invalidate"
    /\ merged_dbs' = InvalidateMerged(threads[t].target, merged_dbs)
    /\ threads' = [threads EXCEPT ![t] = [IdleThread EXCEPT !.outcome = "built"]]
    /\ UNCHANGED <<base_vector_db, subject_dbs, student_dbs, disk, lastOp, quiz>>

\* get_hierarchical_db up to the choice of the scope; without a store for
\* the context the call ends here with Base or ValueError.
ThreadResolveStart(t, subject_id, user_id) ==
    LET target == Selected(subject_id, user_id) IN
    /\ threads[t].pc = "idle"
    /\ base_vector_db' = BaseAfterLoad
    /\ threads' = [threads EXCEPT ![t] =
            IF target[1] = "base"
            THEN [IdleThread EXCEPT !.outcome = IF BaseAfterLoad # None THEN "base" ELSE "ValueError"]
            ELSE [IdleThread EXCEPT !.pc = "cond", !.target = target, !.quiet = ~BaseBuildInFlight]]
    /\ UNCHANGED <<subject_dbs, student_dbs, merged_dbs, disk, lastOp, quiz>>

\* if merged_key not in _merged_dbs and _base_vector_db is not None: the
\* arguments of merge_vector_dbs are read when the condition holds.
ThreadResolveCond(t) ==
    LET target == threads[t].target IN
    /\ threads[t].pc = "cond"
    /\ threads' = [threads EXCEPT ![t] =
            IF MergedKey(target) \notin DOMAIN merged_dbs /\ base_vector_db # None
            THEN [@ EXCEPT !.pc = "merge", !.db1 = Val(Handle(target)), !.db2 = Val(base_vector_db)]
            ELSE [@ EXCEPT !.pc = "has"]]
    /\ UNCHANGED <<base_vector_db, subject_dbs, student_dbs, merged_dbs, disk, lastOp, quiz>>

\* merge_vector_dbs returns; its result is stored under merged_key in the
\* dictionary _merged_dbs names at that moment.
ThreadResolveStore(t) ==
    /\ threads[t].pc = "merge"
    /\ merged_dbs' = DictSet(merged_dbs, MergedKey(threads[t].target), merge_vector_dbs(threads[t].db1, threads[t].db2))
    /\ threads' = [threads EXCEPT ![t] = [@ EXCEPT !.pc = "has", !.db1 = <<>>, !.db2 = <<>>]]
    /\ UNCHANGED <<base_vector_db, subject_dbs, student_dbs, disk, lastOp, quiz>>

\* merge_vector_dbs raises: the exception leaves get_hierarchical_db.
ThreadResolveMergeFail(t) ==
    /\ threads[t].pc = "merge"
    /\ threads' = [threads EXCEPT ![t] = [IdleThread EXCEPT !.outcome = "Exception:provider", !.quiet = threads[t].quiet, !.changed = threads[t].changed]]
    /\ UNCHANGED <<base_vector_db, subject_dbs, student_dbs, merged_dbs, disk, lastOp, quiz>>

\* if merged_key in _merged_dbs: else the store of the scope is returned.
ThreadResolveHas(t) ==
    /\ threads[t].pc = "has"
    /\ threads' = [threads EXCEPT ![t] =
            IF MergedKey(threads[t].target) \in DOMAIN merged_dbs
            THEN [@ EXCEPT !.pc = "return"]
            ELSE [IdleThread EXCEPT !.outcome = "own", !.quiet = threads[t].quiet, !.changed = threads[t].changed]]
    /\ UNCHANGED <<base_vector_db, subject_dbs, student_dbs, merged_dbs, disk, lastOp, quiz>>

\* return _merged_dbs[merged_key]: KeyError when the entry has gone since
\* the test.
ThreadResolveReturn(t) ==
    LET merged_key == MergedKey(threads[t].target) IN
    /\ threads[t].pc = "return"
    /\ threads' = [threads EXCEPT ![t] =
            IF merged_key \in DOMAIN merged_dbs
            THEN [IdleThread EXCEPT !.outcome = "merged", !.quiet = threads[t].quiet, !.changed = threads[t].changed,
                                    !.stale = (base_vector_db = None \/ merged_dbs[merged_key].db2 # Val(base_vector_db))]
            ELSE [IdleThread EXCEPT !.outcome = "KeyError", !.quiet = threads[t].quiet, !.changed = threads[t].changed]]
    /\ UNCHANGED <<base_vector_db, subject_dbs, student_dbs, merged_dbs, disk, lastOp, quiz>>

\* Calls the request threads make: builds of Base and of a subject, and
\* resolves for a subject.
ThreadCreateArgs == {<<None, None, TRUE>>} \cup {<<Some(k), None, FALSE>> : k \in QuerySubjectKeys}

ThreadStep(t) ==
    \/ \E file_paths \in FilePathLists, a \in ThreadCreateArgs : ThreadCreateStart(t, file_paths, a[1], a[2], a[3])
    \/ ThreadCreateAssign(t)
    \/ ThreadCreateFail(t)
    \/ ThreadCreateInvalidate(t)
    \/ \E k \in QuerySubjectKeys : ThreadResolveStart(t, Some(k), None)
    \/ ThreadResolveCond(t)
    \/ ThreadResolveStore(t)
    \/ ThreadResolveMergeFail(t)
    \/ ThreadResolveHas(t)
    \/ ThreadResolveReturn(t)

NextConc == \E t \in ThreadIds : ThreadStep(t)

\* No index is stored on disk when the server starts.
InitConc == Init /\ disk = [p \in Paths |-> None]

SpecConc == InitConc /\ [][NextConc]_vars

\* -------------------------------------- generate_quiz_questions: the parser
\* The text of the model's answer, line by line.  A line is a header (the
\* marker "QUESTION:" or a numbered "Question N", with or without **, and
\* the question text s after it on the same line, 0 for none), a line of
\* plain text s, a blank line, an option line (label, the punctuation after
\* it, indented or not) or a line that declares the correct answer (form
\* plain "CORRECT: v", md "**CORRECT: v**" or answer "CORRECT ANSWER: v").
\* Plain text holds none of the markers the parser looks for.
Labels == {"A", "B", "C", "D"}
Puncts == {":", ".", ")", " "}
Line(k, label, punct, form, val, indent, s) == [k |-> k, label |-> label, punct |-> punct, form |-> form, val |-> val, indent |-> indent, s |-> s]
HeaderLine(marker, s) == Line("header", "", "", marker, "", FALSE, s)
TextLine(s) == Line("text", "", "", "", "", FALSE, s)
BlankLine == Line("blank", "", "", "", "", FALSE, 0)
OptLine(label, punct, indent) == Line("opt", label, punct, "", "", indent, 0)
CorrectLine(form, val, indent) == Line("correct", "", "", form, val, indent, 0)

\* line.strip()
StripLine(line) == [line EXCEPT !.indent = FALSE]

\* line.startswith(label + ":") and line.startswith("CORRECT:")
StartsWithLabel(line, label) == line.k = "opt" /\ line.label = label /\ line.punct = ":" /\ ~line.indent
StartsWithCorrect(line) == line.k = "correct" /\ line.form = "plain" /\ ~line.indent

\* marker in line, for the markers "A:", "B:", "C:", "D:", "CORRECT:"
ContainsOptionMarker(line) ==
    \/ line.k = "opt" /\ line.punct = ":"
    \/ line.k = "correct" /\ line.form \in {"plain", "md"}

IsHeader(line, marker) == line.k = "header" /\ line.form = marker

\* "QUESTION:" in raw_output
HasPrimaryMarker(raw_output) == \E i \in 1..Len(raw_output) : IsHeader(raw_output[i], "QUESTION:")

RECURSIVE DropUntilHeader(_, _)
DropUntilHeader(lines, marker) ==
    IF lines = <<>> \/ IsHeader(Head(lines), marker) THEN lines ELSE DropUntilHeader(Tail(lines), marker)

\* Variant of StripPreamble that leaves the text as it is.
StripPreambleKeeps(raw_output) == raw_output

\* "QUESTION:" + raw_output.split("QUESTION:", 1)[1] when the marker is there
StripPreamble(raw_output) ==
    IF HasPrimaryMarker(raw_output) THEN DropUntilHeader(raw_output, "QUESTION:") ELSE raw_output

\* What follows the marker on a header line.
AfterMarker(line) == IF line.s = 0 THEN BlankLine ELSE TextLine(line.s)

\* str.split / re.split at the marker: the piece before the first marker
\* (empty when the text starts with it), then one piece per marker.
RECURSIVE SplitAt(_, _)
SplitAt(lines, marker) ==
    IF lines = <<>> THEN << <<>> >>
    ELSE LET rest == SplitAt(Tail(lines), marker) IN
         IF IsHeader(Head(lines), marker)
         THEN << <<>>, <<AfterMarker(Head(lines))>> \o Head(rest) >> \o Tail(rest)
         ELSE << <<Head(lines)>> \o Head(rest) >> \o Tail(rest)

RECURSIVE DropLeadingBlank(_)
DropLeadingBlank(lines) ==
    IF lines # <<>> /\ Head(lines).k = "blank" THEN DropLeadingBlank(Tail(lines)) ELSE lines

RECURSIVE DropTrailingBlank(_)
DropTrailingBlank(lines) ==
    IF lines # <<>> /\ lines[Len(lines)].k = "blank" THEN DropTrailingBlank(SubSeq(lines, 1, Len(lines) - 1)) ELSE lines

\* block.strip(): no blank line and no white space at either end.
StripBlock(block) ==
    LET b == DropTrailingBlank(DropLeadingBlank(block)) IN
    IF b = <<>> THEN b ELSE <<StripLine(Head(b))>> \o Tail(b)

RECURSIVE StripAndDropEmpty(_)
StripAndDropEmpty(blocks) ==
    IF blocks = <<>> THEN <<>>
    ELSE (IF StripBlock(Head(blocks)) = <<>> THEN <<>> ELSE <<StripBlock(Head(blocks))>>) \o StripAndDropEmpty(Tail(blocks))

\* Variant of QuestionBlocks without the second attempt at splitting.
QuestionBlocksPrimaryOnly(raw_output) ==
    StripAndDropEmpty(SplitAt(StripPreamble(raw_output), "QUESTION:"))

\* Lines 563-578: the blocks the loop goes through.
QuestionBlocks(raw_output) ==
    LET stripped == StripPreamble(raw_output)
        primary == SplitAt(stripped, "QUESTION:") IN
    StripAndDropEmpty(IF Len(primary) <= 1 THEN SplitAt(stripped, "Question N") ELSE primary)

\* block.find("\nA:"): the first line after the first that starts with
\* "A:", 0 when there is none.
OptionStart(block) ==
    IF \E i \in 2..Len(block) : StartsWithLabel(block[i], "A")
    THEN CHOOSE i \in 2..Len(block) : StartsWithLabel(block[i], "A") /\ \A j \in 2..(i - 1) : ~StartsWithLabel(block[j], "A")
    ELSE 0

\* The text of a question: the lines it is made of, blank ones left out.
NonBlank(line) == line.k # "blank"
QuestionText(lines) == SelectSeq(lines, NonBlank)

\* Original format, lines 672-685: the options and the declared answer are
\* taken from the lines that start with the marker, unstripped.
PrimaryOptions(parts) == {l \in Labels : \E i \in 1..Len(parts) : StartsWithLabel(parts[i], l)}

RECURSIVE PrimaryCorrect(_, _)
PrimaryCorrect(parts, correct_answer) ==
    IF parts = <<>> THEN correct_answer
    ELSE PrimaryCorrect(Tail(parts), IF StartsWithCorrect(Head(parts)) THEN Head(parts).val ELSE correct_answer)

\* Alternative format, lines 599-626: a stripped line that starts with the
\* label followed by ":", ".", ")" or white space is an option.
AlternativeOptions(parts) == {l \in Labels : \E i \in 1..Len(parts) : parts[i].k = "opt" /\ parts[i].label = l /\ parts[i].punct \in Puncts}

\* Lines 628-649: "**CORRECT:" sets the answer to what follows without the
\* stars, "CORRECT:" when something follows, "CORRECT ANSWER:" when a letter
\* A-D follows.
RECURSIVE AlternativeCorrect(_, _)
AlternativeCorrect(parts, correct_answer) ==
    IF parts = <<>> THEN correct_answer
    ELSE LET line == Head(parts) IN
         AlternativeCorrect(Tail(parts),
            IF line.k # "correct" THEN correct_answer
            ELSE IF line.form = "md" THEN line.val
            ELSE IF line.form = "plain" THEN (IF line.val # "" THEN line.val ELSE correct_answer)
            ELSE IF line.val \in Labels THEN line.val ELSE correct_answer)

\* Variants of the gates: one that takes any number of options, one that
\* does not look whether the declared answer is among the options.
GatePrimaryAnyCount(question_text, options, correct_answer) ==
    correct_answer # "" /\ correct_answer \in options

GateAlternativeAnyAnswer(question_text, options, correct_answer) ==
    question_text # <<>> /\ Cardinality(options) = 4 /\ correct_answer # ""

\* Lines 688-694 and 652-663: the block goes on to a record when this holds.
GatePrimary(question_text, options, correct_answer) ==
    Cardinality(options) = 4 /\ correct_answer # "" /\ correct_answer \in options

GateAlternative(question_text, options, correct_answer) ==
    question_text # <<>> /\ Cardinality(options) = 4 /\ correct_answer # "" /\ correct_answer \in options

\* One pass of the loop body up to the gate: the question text, the options
\* and the declared answer of a block, and whether the gate lets it through.
ParseBlock(block) ==
    LET option_start == OptionStart(block) IN
    IF option_start = 0
    THEN LET question_text == IF ContainsOptionMarker(block[1]) THEN <<>> ELSE <<StripLine(block[1])>>
             options == AlternativeOptions(block)
             correct_answer == AlternativeCorrect(block, "") IN
         [question_text |-> question_text, options |-> options, correct_answer |-> correct_answer,
          accepted |-> GateAlternative(question_text, options, correct_answer)]
    ELSE LET question_text == QuestionText(SubSeq(block, 1, option_start - 1))
             options_parts == SubSeq(block, option_start, Len(block))
             options == PrimaryOptions(options_parts)
             correct_answer == PrimaryCorrect(options_parts, "") IN
         [question_text |-> question_text, options |-> options, correct_answer |-> correct_answer,
          accepted |-> GatePrimary(question_text, options, correct_answer)]

\* Lines 697-710: the Question and its Answers, one per option, the one of
\* the declared answer marked correct.  block is the position of the block
\* the record was made from.
QuestionRecord(i, parsed) ==
    [block |-> i, text |-> parsed.question_text,
     answers |-> {[label |-> l, is_correct |-> (l = parsed.correct_answer)] : l \in parsed.options}]

\* Variants of ParseLoop: one that gives up at the first block the gate
\* rejects, one that does not stop at num_questions.
RECURSIVE ParseLoopStopsAtInvalid(_, _, _, _, _)
ParseLoopStopsAtInvalid(blocks, i, generated_questions, skipped, num_questions) ==
    IF i > Len(blocks) THEN [records |-> generated_questions, skipped |-> skipped, attempted |-> Len(blocks), stopped |-> FALSE]
    ELSE LET parsed == ParseBlock(blocks[i]) IN
         IF ~parsed.accepted THEN [records |-> generated_questions, skipped |-> skipped, attempted |-> i, stopped |-> FALSE]
         ELSE IF Len(generated_questions) + 1 >= num_questions
              THEN [records |-> Append(generated_questions, QuestionRecord(i, parsed)), skipped |-> skipped, attempted |-> i, stopped |-> TRUE]
              ELSE ParseLoopStopsAtInvalid(blocks, i + 1, Append(generated_questions, QuestionRecord(i, parsed)), skipped, num_questions)

RECURSIVE ParseLoopNoBreak(_, _, _, _, _)
ParseLoopNoBreak(blocks, i, generated_questions, skipped, num_questions) ==
    IF i > Len(blocks) THEN [records |-> generated_questions, skipped |-> skipped, attempted |-> Len(blocks), stopped |-> FALSE]
    ELSE LET parsed == ParseBlock(blocks[i]) IN
         IF ~parsed.accepted THEN ParseLoopNoBreak(blocks, i + 1, generated_questions, Append(skipped, i), num_questions)
         ELSE ParseLoopNoBreak(blocks, i + 1, Append(generated_questions, QuestionRecord(i, parsed)), skipped, num_questions)

\* Lines 581-720: the loop over the blocks from block i on.  A rejected
\* block is logged and the loop continues; the loop breaks when
\* num_questions records are there.  skipped lists the rejected blocks,
\* attempted is the number of blocks the loop looked at.
RECURSIVE ParseLoop(_, _, _, _, _)
ParseLoop(blocks, i, generated_questions, skipped, num_questions) ==
    IF i > Len(blocks) THEN [records |-> generated_questions, skipped |-> skipped, attempted |-> Len(blocks), stopped |-> FALSE]
    ELSE LET parsed == ParseBlock(blocks[i]) IN
         IF ~parsed.accepted THEN ParseLoop(blocks, i + 1, generated_questions, Append(skipped, i), num_questions)
         ELSE IF Len(generated_questions) + 1 >= num_questions
              THEN [records |-> Append(generated_questions, QuestionRecord(i, parsed)), skipped |-> skipped, attempted |-> i, stopped |-> TRUE]
              ELSE ParseLoop(blocks, i + 1, Append(generated_questions, QuestionRecord(i, parsed)), skipped, num_questions)

\* The parsing part of generate_quiz_questions, lines 556-726; the database
\* session is taken to accept every record.
Parse(raw_output, num_questions) == ParseLoop(QuestionBlocks(raw_output), 1, <<>>, <<>>, num_questions)

ParseQuiz ==
    /\ quiz.result = None
    /\ quiz' = [quiz EXCEPT !.question_blocks = QuestionBlocks(quiz.raw_output),
                            !.result = Some(Parse(quiz.raw_output, quiz.num_questions))]
    /\ UNCHANGED <<base_vector_db, subject_dbs, student_dbs, merged_dbs, disk, lastOp, threads>>

\* The texts the parser is given: an optional preamble, then up to
\* MaxBlocks blocks under one kind of marker, each followed by a blank
\* line.  One block of a text is of any shape below; the others are
\* well-formed blocks or blocks with three options.
MaxBlocks == 3
Markers == {"QUESTION:", "Question N"}

UniformOptions(labels, punct, indent) == [i \in 1..Len(labels) |-> OptLine(labels[i], punct, indent)]

OptionShapes ==
    {UniformOptions(<<"A", "B", "C", "D">>, p, FALSE) : p \in Puncts}
    \cup {UniformOptions(<<"A", "B", "C", "D">>, ":", TRUE)}
    \cup {<<OptLine("A", ":", FALSE), OptLine("B", ".", FALSE), OptLine("C", ")", FALSE), OptLine("D", " ", FALSE)>>}
    \cup {UniformOptions(<<"A", "B", "C">>, p, FALSE) : p \in {":", "."}}
    \cup {UniformOptions(<<"A", "B", "C", "C">>, ":", FALSE)}

CorrectShapes ==
    {<<CorrectLine(form, "B", FALSE)>> : form \in {"plain", "md", "answer"}}
    \cup {<<CorrectLine("plain", "E", FALSE)>>, <<>>}

BlockLines(marker, s, options, correct) == <<HeaderLine(marker, s)>> \o options \o correct \o <<BlankLine>>

WellFormedLines(marker, s) == BlockLines(marker, s, UniformOptions(<<"A", "B", "C", "D">>, ":", FALSE), <<CorrectLine("plain", "B", FALSE)>>)
ThreeOptionLines(marker, s) == BlockLines(marker, s, UniformOptions(<<"A", "B", "C">>, ":", FALSE), <<CorrectLine("plain", "B", FALSE)>>)

FreeBlocks(marker, i) == {BlockLines(marker, s, o, c) : s \in {0, i}, o \in OptionShapes, c \in CorrectShapes}
PlainBlocks(marker, i) == {WellFormedLines(marker, i), ThreeOptionLines(marker, i)}

\* The lines of blocks i..n, the block at position free of any shape.
RECURSIVE BlockSeqs(_, _, _, _)
BlockSeqs(marker, n, i, free) ==
    IF i > n THEN {<<>>}
    ELSE {b \o rest : b \in (IF i = free THEN FreeBlocks(marker, i) ELSE PlainBlocks(marker, i)),
                      rest \in BlockSeqs(marker, n, i + 1, free)}

\* Texts with headers of both kinds: a numbered block before a QUESTION:
\* block, and the other way round.
MixedTexts ==
    {WellFormedLines("Question N", 1) \o WellFormedLines("QUESTION:", 2),
     WellFormedLines("QUESTION:", 1) \o WellFormedLines("Question N", 2)}

RawTexts ==
    {preamble \o b : preamble \in {<<>>, <<TextLine(0)>>},
                     b \in MixedTexts \cup UNION {BlockSeqs(marker, n, 1, free) : marker \in Markers, n \in 1..MaxBlocks, free \in 1..MaxBlocks}}

InitParse ==
    /\ base_vector_db = None
    /\ subject_dbs = EmptyDict
    /\ student_dbs = EmptyDict
    /\ merged_dbs = EmptyDict
    /\ disk = [p \in Paths |-> None]
    /\ lastOp = NoCall
    /\ threads = NoThreads
    /\ quiz \in {[raw_output |-> r, num_questions |-> n, question_blocks |-> <<>>, result |-> None] : r \in RawTexts, n \in 1..MaxBlocks}

NextParse == ParseQuiz

SpecParse == InitParse /\ [][NextParse]_vars

\* ------------------------------- generate_quiz_questions: the whole call
\* The record of a generate_quiz_questions call; ret is the number of
\* Question rows it made.
QuizCall(subject_id, num_questions, difficulty_level, outcome, ret, embedded, merges) ==
    [NoCall EXCEPT !.op = "generate_quiz_questions", !.subject_id = Some(subject_id), !.outcome = outcome, !.ret = ret,
                   !.embedded = embedded, !.merges = merges, !.num_questions = num_questions, !.difficulty_level = difficulty_level]

\* Lines 472-479: the error the validation raises, "none" when it passes.
QuizInvalid(subject_id, num_questions, difficulty_level) ==
    IF num_questions <= 0 \/ num_questions > 20 THEN "ValueError:count"
    ELSE IF difficulty_level < 1 \/ difficulty_level > 5 THEN "ValueError:difficulty"
    ELSE IF subject_id \notin DOMAIN subject_dbs THEN "ValueError:subject"
    ELSE "none"

\* Variant of QuizReject that, for a subject without a store, goes on with
\* the Base store when there is one and makes a record from the answer.
QuizRejectUsesBase(subject_id, num_questions, difficulty_level) ==
    LET error == QuizInvalid(subject_id, num_questions, difficulty_level) IN
    /\ error # "none"
    /\ base_vector_db' = IF error = "ValueError:subject" THEN BaseAfterLoad ELSE base_vector_db
    /\ lastOp' = IF error = "ValueError:subject" /\ BaseAfterLoad # None
                  THEN QuizCall(subject_id, num_questions, difficulty_level, "returned", Some(Len(Parse(WellFormedLines("QUESTION:", 1), num_questions).records)), 0, 0)
                  ELSE QuizCall(subject_id, num_questions, difficulty_level, error, None, 0, 0)
    /\ UNCHANGED <<subject_dbs, student_dbs, merged_dbs, disk, threads, quiz>>

\* The validation raises: nothing was read from disk, merged or stored.
QuizReject(subject_id, num_questions, difficulty_level) ==
    /\ QuizInvalid(subject_id, num_questions, difficulty_level) # "none"
    /\ lastOp' = QuizCall(subject_id, num_questions, difficulty_level, QuizInvalid(subject_id, num_questions, difficulty_level), None, 0, 0)
    /\ UNCHANGED <<base_vector_db, subject_dbs, student_dbs, merged_dbs, disk, threads, quiz>>

\* The validation passes and the merge made by get_hierarchical_db (line
\* 495) raises.
QuizMergeFail(subject_id, num_questions, difficulty_level) ==
    /\ QuizInvalid(subject_id, num_questions, difficulty_level) = "none"
    /\ subject_id \in DOMAIN subject_dbs
    /\ SubjectMergedKey(subject_id) \notin DOMAIN merged_dbs
    /\ BaseAfterLoad # None
    /\ base_vector_db' = BaseAfterLoad
    /\ lastOp' = QuizCall(subject_id, num_questions, difficulty_level, "Exception:provider", None, 0, 1)
    /\ UNCHANGED <<subject_dbs, student_dbs, merged_dbs, disk, threads, quiz>>

\* The validation passes: get_hierarchical_db(subject_id) resolves the
\* store as ResolveScope does, the chain answers raw_output, the parser
\* makes the records.
QuizGenerate(subject_id, num_questions, difficulty_level, raw_output) ==
    LET merged_key == SubjectMergedKey(subject_id)
        make == merged_key \notin DOMAIN merged_dbs /\ BaseAfterLoad # None
        merged == IF make THEN DictSet(merged_dbs, merged_key, merge_vector_dbs(subject_dbs[subject_id], Val(BaseAfterLoad))) ELSE merged_dbs IN
    /\ QuizInvalid(subject_id, num_questions, difficulty_level) = "none"
    /\ subject_id \in DOMAIN subject_dbs
    /\ base_vector_db' = BaseAfterLoad
    /\ merged_dbs' = merged
    /\ lastOp' = QuizCall(subject_id, num_questions, difficulty_level, "returned", Some(Len(Parse(raw_output, num_questions).records)),
                          IF make THEN Len(merged[merged_key].docs) ELSE 0, IF make THEN 1 ELSE 0)
    /\ UNCHANGED <<subject_dbs, student_dbs, disk, threads, quiz>>

\* The arguments auto_generate_questions passes: Subject.id and the two
\* numbers of the form, whatever they are; the answers of the chain: no
\* block, one well-formed block, two.
NumQuestionsArgs == {0, 1, 20, 21}
DifficultyArgs == {0, 1, 5, 6}
QuizAnswers == {<<>>, WellFormedLines("QUESTION:", 1), WellFormedLines("QUESTION:", 1) \o WellFormedLines("QUESTION:", 2)}

generate_quiz_questions(subject_id, num_questions, difficulty_level) ==
    \/ QuizReject(subject_id, num_questions, difficulty_level)
    \/ QuizMergeFail(subject_id, num_questions, difficulty_level)
    \/ \E raw_output \in QuizAnswers : QuizGenerate(subject_id, num_questions, difficulty_level, raw_output)

GenerateQuiz ==
    \E subject_id \in QuerySubjectKeys, num_questions \in NumQuestionsArgs, difficulty_level \in DifficultyArgs :
        generate_quiz_questions(subject_id, num_questions, difficulty_level)

\* Uploads and quiz generation, one call at a time.
NextQuiz == EnsureIndex \/ GenerateQuiz

SpecQuiz == Init /\ [][NextQuiz]_vars

\* ------------------------------------------------------------------ claims
IsCreate(c) == c.op = "create_vector_db"
IsQuery(c) == c.op = "get_hierarchical_db"

\* C1: a merged store returned by get_hierarchical_db for a subject or a
\* student was built from the store that scope has now and from the Base
\* store there is now; no merge made before the latest rebuild of either is
\* returned.
C1_MergedIsCurrent ==
    (IsQuery(lastOp) /\ lastOp.outcome = "merged") =>
        /\ Some(Val(lastOp.ret).db1) = Handle(lastOp.target)
        /\ Some(Val(lastOp.ret).db2) = base_vector_db

\* A query answered from the cache (no merge made in the call) whose Base
\* store holds two chunks, so Base was built after start-up.
C1_Witness ==
    /\ IsQuery(lastOp) /\ lastOp.outcome = "merged" /\ lastOp.merges = 0
    /\ base_vector_db # None /\ Len(Val(base_vector_db)) = 2
    /\ Len(Val(Handle(lastOp.target))) = 2

\* C2: a successful build of Base leaves no entry in the merged cache, and a
\* query for a scope whose entry is missing makes its merge again, from the
\* Base store of that moment.
C2_BaseBuildDiscardsAll ==
    [][ /\ (IsCreate(lastOp') /\ lastOp'.outcome = "built" /\ lastOp'.target[1] = "base") => merged_dbs' = EmptyDict
        /\ (IsQuery(lastOp') /\ lastOp'.outcome = "merged" /\ MergedKey(lastOp'.target) \notin DOMAIN merged_dbs) =>
              (lastOp'.merges = 1 /\ Some(Val(lastOp'.ret).db2) = base_vector_db') ]_vars

\* Base has just been rebuilt while a subject and a student both have a
\* store.
C2_Witness ==
    /\ IsCreate(lastOp) /\ lastOp.outcome = "built" /\ lastOp.target[1] = "base" /\ lastOp.prior # None
    /\ \E k \in QuerySubjectKeys : k \in DOMAIN subject_dbs
    /\ \E k \in UserKeys : k \in DOMAIN student_dbs
    /\ merged_dbs = EmptyDict

\* C3: a successful build of one subject or student removes the merged entry
\* of that scope and nothing else: the other merged entries, the stores of
\* the other scopes and the Base store are as before.
C3_ScopeBuildDiscardsOwnOnly ==
    [][ (IsCreate(lastOp') /\ lastOp'.outcome = "built" /\ lastOp'.target[1] # "base") =>
          /\ merged_dbs' = DictDel(merged_dbs, MergedKey(lastOp'.target))
          /\ base_vector_db' = base_vector_db
          /\ IF lastOp'.target[1] = "subject"
             THEN student_dbs' = student_dbs /\ DictDel(subject_dbs', lastOp'.target[2]) = DictDel(subject_dbs, lastOp'.target[2])
             ELSE subject_dbs' = subject_dbs /\ DictDel(student_dbs', lastOp'.target[2]) = DictDel(student_dbs, lastOp'.target[2]) ]_vars

\* A subject has just been rebuilt and the merged entry of the student with
\* the same id is still there.
C3_Witness ==
    /\ IsCreate(lastOp) /\ lastOp.outcome = "built" /\ lastOp.target[1] = "subject" /\ lastOp.prior # None
    /\ StudentMergedKey(lastOp.target[2]) \in DOMAIN merged_dbs
    /\ SubjectMergedKey(lastOp.target[2]) \notin DOMAIN merged_dbs

\* C4: a create_vector_db that returns, called for a scope that an earlier
\* call built from the same chunks (and that had no index before), returns
\* the same count and embeds nothing.
C4_SecondCallEmbedsNothing ==
    (IsCreate(lastOp) /\ lastOp.ret # None /\ ~IndexOnDisk(SavePath(lastOp.target))
        /\ lastOp.prior # None /\ lastOp.split_docs = Val(lastOp.prior)) =>
        (lastOp.ret = Some(Len(Val(lastOp.prior))) /\ lastOp.embedded = 0)

\* C5: the chunks of a merged store returned by get_hierarchical_db are
\* those of the Base store and of the scope's store, no more and no fewer.
C5_MergedIsUnion ==
    (IsQuery(lastOp) /\ lastOp.outcome = "merged") =>
        Range(Val(lastOp.ret).docs) = Range(Val(Handle(lastOp.target))) \cup Range(Val(base_vector_db))

\* A merge has just been made of two stores with different chunks.
C5_Witness ==
    /\ IsQuery(lastOp) /\ lastOp.outcome = "merged" /\ lastOp.merges = 1
    /\ Range(Val(Handle(lastOp.target))) # Range(Val(base_vector_db))
    /\ Range(Val(lastOp.ret).docs) = {1, 2}

\* C6: get_hierarchical_db called with no subject and no user returns the
\* Base store when there is one and raises when there is none.
C6_NoContextBaseOrError ==
    (IsQuery(lastOp) /\ lastOp.subject_id = None /\ lastOp.user_id = None) =>
        IF base_vector_db # None
        THEN lastOp.outcome = "base" /\ lastOp.ret = base_vector_db
        ELSE lastOp.outcome = "ValueError"

\* C7: get_hierarchical_db called for a subject or student without a store
\* returns the Base store when there is one and raises ValueError when
\* there is none; the merged cache is as before.
C7_FallbackToBase ==
    [][ (IsQuery(lastOp') /\ lastOp'.target[1] = "base" /\ (lastOp'.subject_id # None \/ lastOp'.user_id # None)) =>
          /\ merged_dbs' = merged_dbs
          /\ IF base_vector_db' # None
             THEN lastOp'.outcome = "base" /\ lastOp'.ret = base_vector_db'
             ELSE lastOp'.outcome = "ValueError" /\ lastOp'.ret = None ]_vars

\* A query for a subject without a store has just raised ValueError.
C7_Witness ==
    /\ IsQuery(lastOp) /\ lastOp.subject_id # None /\ lastOp.user_id = None
    /\ lastOp.target[1] = "base" /\ lastOp.outcome = "ValueError"
    /\ base_vector_db = None

\* C8: after a successful build the index is in the store directory of its
\* target, and every store registered in memory has its index on disk.
C8_BuildIsPersisted ==
    /\ (IsCreate(lastOp) /\ lastOp.outcome = "built") => disk[SavePath(lastOp.target)] = Some(lastOp.split_docs)
    /\ base_vector_db # None => disk[BASE_VECTOR_DIR] = base_vector_db
    /\ \A k \in DOMAIN subject_dbs : disk[SubjectPath(k)] = Some(subject_dbs[k])
    /\ \A k \in DOMAIN student_dbs : disk[StudentPath(k)] = Some(student_dbs[k])

\* C9: create_vector_db for a target whose index.faiss exists embeds
\* nothing, returns the size of the stored index, and leaves the stored
\* index, a store already registered for the target and the merged cache
\* as they were.
C9_ExistingIndexNoOp ==
    [][ (IsCreate(lastOp') /\ lastOp'.target[1] # "none" /\ IndexOnDisk(SavePath(lastOp'.target))) =>
          /\ lastOp'.embedded = 0
          /\ lastOp'.ret = Some(Len(Val(disk[SavePath(lastOp'.target)])))
          /\ disk' = disk
          /\ merged_dbs' = merged_dbs
          /\ lastOp'.prior # None => HandleIn(base_vector_db', subject_dbs', student_dbs', lastOp'.target) = lastOp'.prior
          /\ HandleIn(base_vector_db', subject_dbs', student_dbs', lastOp'.target) = disk[SavePath(lastOp'.target)] ]_vars

\* A call for a student whose index is on disk and already loaded, made
\* while the student's merged entry is cached.
C9_Witness ==
    /\ IsCreate(lastOp) /\ lastOp.outcome = "loaded" /\ lastOp.target[1] = "student"
    /\ lastOp.prior # None
    /\ StudentMergedKey(lastOp.target[2]) \in DOMAIN merged_dbs

\* C10: a create_vector_db whose build raises leaves the Base store, the
\* subject and student stores and the merged cache as they were.
C10_FailedBuildChangesNothing ==
    [][ (IsCreate(lastOp') /\ lastOp'.outcome = "Exception:provider") =>
          /\ base_vector_db' = base_vector_db
          /\ subject_dbs' = subject_dbs
          /\ student_dbs' = student_dbs
          /\ merged_dbs' = merged_dbs
          /\ disk' = disk ]_vars

\* A rebuild of a subject has just raised while the subject had a store and
\* a merged entry.
C10_Witness ==
    /\ IsCreate(lastOp) /\ lastOp.outcome = "Exception:provider" /\ lastOp.target[1] = "subject"
    /\ lastOp.prior # None
    /\ SubjectMergedKey(lastOp.target[2]) \in DOMAIN merged_dbs

\* C11: create_vector_db for a target with no stored index, given files
\* that yield no chunk, raises ValueError and leaves every store and every
\* merged entry as it was.
C11_EmptyContentChangesNothing ==
    [][ (IsCreate(lastOp') /\ lastOp'.target[1] # "none" /\ ~IndexOnDisk(SavePath(lastOp'.target)) /\ lastOp'.split_docs = <<>>) =>
          /\ lastOp'.outcome = "ValueError:empty" /\ lastOp'.ret = None
          /\ base_vector_db' = base_vector_db
          /\ subject_dbs' = subject_dbs
          /\ student_dbs' = student_dbs
          /\ merged_dbs' = merged_dbs ]_vars

\* An upload with no content for a student who has a store and a merged
\* entry has just been refused.
C11_Witness ==
    /\ IsCreate(lastOp) /\ lastOp.outcome = "ValueError:empty" /\ lastOp.target[1] = "student"
    /\ lastOp.prior # None
    /\ StudentMergedKey(lastOp.target[2]) \in DOMAIN merged_dbs

\* C12: a get_hierarchical_db whose merge_vector_dbs call fails returns the
\* scope's own store and stores no merged entry.
C12_MergeFailureFallsBack ==
    (IsQuery(lastOp) /\ lastOp.merges = 1 /\ MergedKey(lastOp.target) \notin DOMAIN merged_dbs) =>
        (lastOp.outcome = "own" /\ lastOp.ret = Handle(lastOp.target))

\* C13: no get_hierarchical_db call embeds a chunk.
C13_ResolveEmbedsNothing ==
    IsQuery(lastOp) => lastOp.embedded = 0

\* C13 as amended: a get_hierarchical_db that makes a merge embeds every
\* chunk of the scope's store and of the Base store once more; one that
\* makes no merge embeds nothing.
C13_MergeReembedsBothSources ==
    (IsQuery(lastOp) /\ lastOp.ret # None) =>
        lastOp.embedded = IF lastOp.merges = 1 THEN Len(Val(Handle(lastOp.target))) + Len(Val(base_vector_db)) ELSE 0

\* A merge of a one-chunk and a two-chunk store has just been made.
C13_Witness ==
    /\ IsQuery(lastOp) /\ lastOp.outcome = "merged" /\ lastOp.merges = 1
    /\ lastOp.embedded = 3

\* C14 (refuted by the code): a resolve that started when no Base build was
\* in flight, and during which Base was not replaced, never returns a merged
\* entry built from a Base other than the current one.
C14_NoStaleMergeAfterBaseBuild ==
    \A t \in ThreadIds :
        (threads[t].pc = "idle" /\ threads[t].outcome = "merged" /\ threads[t].quiet /\ ~threads[t].changed) => ~threads[t].stale

\* C15 (refuted by the code): no two threads are building the index of the
\* same scope at once.
C15_OneBuildPerScope ==
    \A t, u \in ThreadIds :
        (t # u /\ threads[t].pc = "build" /\ threads[u].pc = "build") => threads[t].target # threads[u].target

IsStatus(c) == c.op = "get_vector_db_status"

\* The stores registered for subject i, under whichever key.
SubjectHandles(dbs, i) == {dbs[k] : k \in {x \in DOMAIN dbs : Str(x) = i}}

\* C23 (refuted by the code): the status call changes no table, and its
\* report has a scope Ready exactly when a store of that scope is
\* registered in memory, with the size of a registered store.
C23_StatusReflectsMemory ==
    [][ IsStatus(lastOp') =>
          LET st == Val(lastOp'.ret) IN
          /\ base_vector_db' = base_vector_db /\ subject_dbs' = subject_dbs
          /\ student_dbs' = student_dbs /\ merged_dbs' = merged_dbs
          /\ (st.base.status = "Ready") <=> (base_vector_db # None)
          /\ st.base.status = "Ready" => st.base.chunk_count = Len(Val(base_vector_db))
          /\ \A i \in SubjectIds :
                /\ (st.subjects[i].status = "Ready") <=> (SubjectHandles(subject_dbs, i) # {})
                /\ st.subjects[i].status = "Ready" => \E h \in SubjectHandles(subject_dbs, i) : st.subjects[i].chunk_count = Len(h)
          /\ \A i \in UserIds :
                /\ (st.students[i].status = "Ready") <=> (<<"int", i>> \in DOMAIN student_dbs)
                /\ st.students[i].status = "Ready" => st.students[i].chunk_count = Len(student_dbs[<<"int", i>>]) ]_vars

\* C24 (refuted by the code): no two registered subject stores, and no two
\* registered student stores, belong to the same scope, that is, share the
\* index directory and the merged key.
C24_OneHandlePerScope ==
    /\ \A k1, k2 \in DOMAIN subject_dbs :
            (SubjectPath(k1) = SubjectPath(k2) /\ SubjectMergedKey(k1) = SubjectMergedKey(k2)) => k1 = k2
    /\ \A k1, k2 \in DOMAIN student_dbs :
            (StudentPath(k1) = StudentPath(k2) /\ StudentMergedKey(k1) = StudentMergedKey(k2)) => k1 = k2

\* The store the resolver merges for a merged key: the one registered
\* under the integer id of the subject or the student.
MergedScope(mk) == IF mk[1] = "student" THEN <<"student", <<"int", mk[2]>>>> ELSE <<"subject", <<"int", mk[2]>>>>

EntryIsCurrent(mk) ==
    /\ base_vector_db # None /\ merged_dbs[mk].db2 = Val(base_vector_db)
    /\ Handle(MergedScope(mk)) # None /\ merged_dbs[mk].db1 = Val(Handle(MergedScope(mk)))
    /\ merged_dbs[mk].docs = Val(Handle(MergedScope(mk))) \o Val(base_vector_db)

\* C26: with calls made one at a time, every entry of the merged cache was
\* built from the Base store and the scope's store as they are now, and the
\* merged flag of a status report is true only for such an entry.
C26_CacheEntriesAreCurrent ==
    /\ \A mk \in DOMAIN merged_dbs : EntryIsCurrent(mk)
    /\ IsStatus(lastOp) =>
          /\ \A i \in SubjectIds : Val(lastOp.ret).subjects[i].merged_with_base =>
                (SubjectMergedKey(<<"int", i>>) \in DOMAIN merged_dbs /\ EntryIsCurrent(SubjectMergedKey(<<"int", i>>)))
          /\ \A i \in UserIds : Val(lastOp.ret).students[i].merged_with_base =>
                (StudentMergedKey(<<"int", i>>) \in DOMAIN merged_dbs /\ EntryIsCurrent(StudentMergedKey(<<"int", i>>)))

\* A status report with a merged subject whose Base store and own store
\* have both been built from two files.
C26_Witness ==
    /\ IsStatus(lastOp)
    /\ \E i \in SubjectIds : Val(lastOp.ret).subjects[i].merged_with_base /\ Val(lastOp.ret).subjects[i].chunk_count = 2
    /\ Val(lastOp.ret).base.chunk_count = 2

\* C27 as stated (refuted): a resolve for a scope with a store, made while
\* no Base store is registered, returns the scope's store and caches
\* nothing; with a Base store registered after the call, a resolve that
\* returns gives a merge with that Base.
C27_NoBaseHandleNoMerge ==
    [][ (IsQuery(lastOp') /\ lastOp'.target[1] # "base") =>
          /\ base_vector_db = None =>
                (lastOp'.outcome = "own" /\ lastOp'.ret = Handle(lastOp'.target) /\ merged_dbs' = merged_dbs)
          /\ (base_vector_db' # None /\ lastOp'.ret # None) =>
                (lastOp'.outcome = "merged" /\ Val(lastOp'.ret).db2 = Val(base_vector_db')) ]_vars

\* C27 as amended: the same, for a resolve made while no Base store is
\* registered and none is stored on disk either.
C27_NoBaseAnywhereNoMerge ==
    [][ (IsQuery(lastOp') /\ lastOp'.target[1] # "base") =>
          /\ (base_vector_db = None /\ ~IndexOnDisk(BASE_VECTOR_DIR)) =>
                (lastOp'.outcome = "own" /\ lastOp'.ret = Handle(lastOp'.target) /\ merged_dbs' = merged_dbs
                 /\ MergedKey(lastOp'.target) \notin DOMAIN merged_dbs')
          /\ (base_vector_db' # None /\ lastOp'.ret # None) =>
                (lastOp'.outcome = "merged" /\ Val(lastOp'.ret).db2 = Val(base_vector_db')) ]_vars

\* A resolve for a subject with a store of two chunks, no Base store in
\* memory or on disk: the store itself is returned.
C27_Witness ==
    /\ IsQuery(lastOp) /\ lastOp.outcome = "own" /\ lastOp.target[1] = "subject"
    /\ base_vector_db = None /\ ~IndexOnDisk(BASE_VECTOR_DIR)
    /\ lastOp.ret = Some(<<1, 2>>) /\ merged_dbs = EmptyDict

\* C28: a resolve that follows a resolve with the same arguments that
\* returned returns the same store, makes no merge, embeds nothing and
\* changes no table.
C28_SecondResolveFromCache ==
    [][ (IsQuery(lastOp) /\ IsQuery(lastOp') /\ lastOp.ret # None
         /\ lastOp'.subject_id = lastOp.subject_id /\ lastOp'.user_id = lastOp.user_id) =>
          /\ lastOp'.ret = lastOp.ret /\ lastOp'.outcome = lastOp.outcome
          /\ lastOp'.merges = 0 /\ lastOp'.embedded = 0
          /\ base_vector_db' = base_vector_db /\ subject_dbs' = subject_dbs
          /\ student_dbs' = student_dbs /\ merged_dbs' = merged_dbs ]_vars

\* A merged store served from the cache for a student, nothing embedded.
C28_Witness ==
    /\ IsQuery(lastOp) /\ lastOp.outcome = "merged" /\ lastOp.merges = 0 /\ lastOp.embedded = 0
    /\ lastOp.target[1] = "student"

\* C29: every key of the merged cache is the key of a subject or of a
\* student, and while an entry exists the store of its scope and the Base
\* store are both registered.
C29_EntriesOnlyForScopesWithBase ==
    \A mk \in DOMAIN merged_dbs :
        /\ mk \in MergedKeys
        /\ base_vector_db # None
        /\ Handle(MergedScope(mk)) # None

C29_Witness ==
    /\ SubjectMergedKey(<<"int", 1>>) \in DOMAIN merged_dbs
    /\ StudentMergedKey(<<"int", 1>>) \in DOMAIN merged_dbs
    /\ IsQuery(lastOp) /\ lastOp.outcome = "base"

\* The chunk count the status report gives for a target.
StatusChunkCount(target) ==
    IF target[1] = "base" THEN VectorDbStatus.base.chunk_count
    ELSE IF target[1] = "subject" THEN VectorDbStatus.subjects[Str(target[2])].chunk_count
    ELSE VectorDbStatus.students[Str(target[2])].chunk_count

\* C30 (refuted by the code): after a successful build the store of the
\* target holds exactly the chunks of the call, the call returned their
\* number, and the status report gives that number for the scope.
C30_BuildReplacesContent ==
    (IsCreate(lastOp) /\ lastOp.outcome = "built") =>
        /\ Handle(lastOp.target) = Some(lastOp.split_docs)
        /\ lastOp.ret = Some(Len(lastOp.split_docs))
        /\ StatusChunkCount(lastOp.target) = Val(lastOp.ret)

\* C34 (refuted by the code): no resolve of a thread ends with the KeyError
\* of reading a merged entry that was deleted after the test that found it.
C34_NoMissingKeyError == \A t \in ThreadIds : threads[t].outcome # "KeyError"

\* The scopes of the deployment: Base, each subject and each student.
Scopes == {<<"base", 0>>} \cup {<<"subject", i>> : i \in SubjectIds} \cup {<<"student", i>> : i \in UserIds}

\* A store of the scope is in the tables base, subjects, students.
RegisteredIn(base, subjects, students, sc) ==
    IF sc[1] = "base" THEN base # None
    ELSE IF sc[1] = "subject" THEN SubjectHandles(subjects, sc[2]) # {}
    ELSE <<"int", sc[2]>> \in DOMAIN students

\* The entry of a scope in a status report.
StatusOf(st, sc) == IF sc[1] = "base" THEN st.base ELSE IF sc[1] = "subject" THEN st.subjects[sc[2]] ELSE st.students[sc[2]]

\* The call is a resolve that names the scope (any resolve, for Base).
ResolveNames(c, sc) ==
    /\ IsQuery(c)
    /\ sc[1] = "subject" => c.subject_id = Some(<<"int", sc[2]>>)
    /\ sc[1] = "student" => c.user_id = Some(<<"int", sc[2]>>)

\* C31 (refuted by the code): a scope with a registered store still has one
\* after any call, a status report made then gives it as Ready, and a
\* resolve that names it does not raise for want of an index.
C31_HandleNeverRemoved ==
    [][ \A sc \in Scopes :
          RegisteredIn(base_vector_db, subject_dbs, student_dbs, sc) =>
            /\ RegisteredIn(base_vector_db', subject_dbs', student_dbs', sc)
            /\ IsStatus(lastOp') => StatusOf(Val(lastOp'.ret), sc).status = "Ready"
            /\ ResolveNames(lastOp', sc) => lastOp'.outcome # "ValueError" ]_vars

\* The part of C31 about the tables alone: no call removes a key from a
\* table or sets Base back to None.
C31_NoKeyRemoved ==
    [][ /\ base_vector_db # None => base_vector_db' # None
        /\ DOMAIN subject_dbs \subseteq DOMAIN subject_dbs'
        /\ DOMAIN student_dbs \subseteq DOMAIN student_dbs' ]_vars

\* The step resolved the scope with store own and merged key mk: no other
\* merged entry changed, and the call returned the merge of own with Base
\* when there is a Base store after the call, else own itself.
ResolvedAs(mk, own) ==
    /\ DOMAIN merged_dbs' \ {mk} = DOMAIN merged_dbs \ {mk}
    /\ \A k \in DOMAIN merged_dbs \ {mk} : merged_dbs'[k] = merged_dbs[k]
    /\ IF base_vector_db' # None
       THEN mk \in DOMAIN merged_dbs' /\ lastOp'.ret = Some(merged_dbs'[mk]) /\ merged_dbs'[mk].db1 = own /\ merged_dbs'[mk].db2 = Val(base_vector_db')
       ELSE lastOp'.ret = Some(own) /\ merged_dbs' = merged_dbs

\* C35: a resolve given a subject id and a user id that returns resolves
\* the student when the student has a store, whatever the subject has; the
\* subject when only the subject has one; Base when neither has.
C35_StudentBeforeSubject ==
    [][ (IsQuery(lastOp') /\ lastOp'.subject_id # None /\ lastOp'.user_id # None /\ lastOp'.outcome # "Exception:provider") =>
          LET u == Val(lastOp'.user_id)
              sj == Val(lastOp'.subject_id) IN
          IF u \in DOMAIN student_dbs THEN ResolvedAs(StudentMergedKey(u), student_dbs[u])
          ELSE IF sj \in DOMAIN subject_dbs THEN ResolvedAs(SubjectMergedKey(sj), subject_dbs[sj])
          ELSE /\ lastOp'.ret = base_vector_db' /\ merged_dbs' = merged_dbs
               /\ (lastOp'.outcome = "ValueError") <=> (base_vector_db' = None) ]_vars

C35_Witness ==
    /\ IsQuery(lastOp) /\ lastOp.subject_id = Some(<<"int", 1>>) /\ lastOp.user_id = Some(<<"int", 1>>)
    /\ <<"int", 1>> \in DOMAIN subject_dbs /\ <<"int", 1>> \in DOMAIN student_dbs
    /\ subject_dbs[<<"int", 1>>] # student_dbs[<<"int", 1>>]
    /\ lastOp.outcome = "merged" /\ Val(lastOp.ret).db1 = student_dbs[<<"int", 1>>]
    /\ SubjectMergedKey(<<"int", 1>>) \notin DOMAIN merged_dbs

\* The step assigned vector_db to Base and to no other table.
OnlyBaseSet(vector_db) == base_vector_db' = Some(vector_db) /\ subject_dbs' = subject_dbs /\ student_dbs' = student_dbs

\* The step assigned vector_db to the entry k of the table, whose value
\* goes from dbs to dbs2, and to nothing else of it.
OnlyEntrySet(dbs, dbs2, k, vector_db) ==
    /\ DOMAIN dbs2 = DOMAIN dbs \cup {k} /\ dbs2[k] = vector_db
    /\ \A x \in DOMAIN dbs \ {k} : dbs2[x] = dbs[x]

NamedScopes(c) ==
    (IF c.subject_id # None THEN {<<"subject", Str(Val(c.subject_id))>>} ELSE {})
    \cup (IF c.user_id # None THEN {<<"student", Str(Val(c.user_id))>>} ELSE {})

ScopePath(sc) == IF sc[1] = "subject" THEN SubjectPath(<<"int", sc[2]>>) ELSE StudentPath(<<"int", sc[2]>>)

\* C37: a resolve registers the Base index found on disk when Base has no
\* store, and registers no subject and no student store; when no scope it
\* names has a store in memory, although one of them has an index on disk,
\* it returns the Base store, or raises ValueError when there is none, and
\* makes no merged entry.
C37_OnDemandLoadForBaseOnly ==
    [][ IsQuery(lastOp') =>
          /\ subject_dbs' = subject_dbs /\ student_dbs' = student_dbs
          /\ base_vector_db' = IF base_vector_db = None THEN disk[BASE_VECTOR_DIR] ELSE base_vector_db
          /\ ( /\ \A sc \in NamedScopes(lastOp') : ~RegisteredIn(base_vector_db, subject_dbs, student_dbs, sc)
               /\ \E sc \in NamedScopes(lastOp') : IndexOnDisk(ScopePath(sc)) ) =>
                /\ lastOp'.ret = base_vector_db'
                /\ (lastOp'.outcome = "ValueError") <=> (base_vector_db' = None)
                /\ merged_dbs' = merged_dbs ]_vars

\* A resolve for a subject with an index on disk and no store in memory
\* returned the Base store, loaded from disk by the same call or before.
C37_Witness ==
    /\ IsQuery(lastOp) /\ lastOp.subject_id = Some(<<"int", 1>>) /\ lastOp.user_id = None
    /\ IndexOnDisk(SubjectPath(<<"int", 1>>)) /\ subject_dbs = EmptyDict
    /\ lastOp.outcome = "base" /\ lastOp.ret = disk[BASE_VECTOR_DIR] /\ base_vector_db = disk[BASE_VECTOR_DIR]

IsQuiz(c) == c.op = "generate_quiz_questions"

\* C38: a generate_quiz_questions call for a subject without a store
\* raises, with or without a Base store, and so does a call with
\* num_questions outside 1..20 or difficulty_level outside 1..5; a call
\* that raises for one of these makes no Question row and leaves the
\* tables and the merged cache as they were.
C38_QuizRejectsWithoutFallback ==
    [][ IsQuiz(lastOp') =>
          LET c == lastOp'
              invalid == \/ Val(c.subject_id) \notin DOMAIN subject_dbs
                         \/ c.num_questions < 1 \/ c.num_questions > 20
                         \/ c.difficulty_level < 1 \/ c.difficulty_level > 5 IN
          invalid =>
            /\ c.outcome \in {"ValueError:count", "ValueError:difficulty", "ValueError:subject"}
            /\ c.ret = None /\ c.merges = 0 /\ c.embedded = 0
            /\ merged_dbs' = merged_dbs /\ base_vector_db' = base_vector_db
            /\ subject_dbs' = subject_dbs /\ student_dbs' = student_dbs ]_vars

\* A call with valid numbers for a subject without a store raised while
\* Base had a store.
C38_Witness ==
    /\ IsQuiz(lastOp) /\ lastOp.outcome = "ValueError:subject"
    /\ lastOp.num_questions = 20 /\ lastOp.difficulty_level = 5
    /\ base_vector_db # None /\ Val(lastOp.subject_id) \notin DOMAIN subject_dbs

\* --------------------------------------------------- claims on the parser
Parsed == quiz.result # None
Result == Val(quiz.result)
Blocks == quiz.question_blocks
RecordBlocks == {Result.records[i].block : i \in 1..Len(Result.records)}
SkippedBlocks == {Result.skipped[i] : i \in 1..Len(Result.skipped)}
Min(a, b) == IF a <= b THEN a ELSE b

\* The positions of the blocks the gate lets through, in text order.
AcceptedBlocks == LET Accepted(i) == ParseBlock(Blocks[i]).accepted IN SelectSeq([i \in 1..Len(Blocks) |-> i], Accepted)

\* A block in the primary dialect as it reaches the loop: the question,
\* the lines A: to D:, CORRECT: with one of the letters.
WellFormedBlock(block) ==
    /\ Len(block) = 6
    /\ block[1].k = "text"
    /\ SubSeq(block, 2, 5) = UniformOptions(<<"A", "B", "C", "D">>, ":", FALSE)
    /\ \E v \in Labels : block[6] = CorrectLine("plain", v, FALSE)

\* The text of n well-formed blocks under the marker QUESTION:.
RECURSIVE WellFormedText(_, _)
WellFormedText(i, n) == IF i > n THEN <<>> ELSE WellFormedLines("QUESTION:", i) \o WellFormedText(i + 1, n)

\* C16: every record returned has a non-empty question text and exactly
\* four answers, one for each of the labels A, B, C and D, exactly one of
\* them marked correct.
C16_RecordsAreWellFormed ==
    Parsed =>
        \A i \in 1..Len(Result.records) :
            LET r == Result.records[i] IN
            /\ r.text # <<>>
            /\ Cardinality(r.answers) = 4
            /\ {a.label : a \in r.answers} = Labels
            /\ Cardinality({a \in r.answers : a.is_correct}) = 1

C16_Witness == Parsed /\ Len(Result.records) >= 2 /\ Len(Result.skipped) >= 1

\* C17: a block the gate rejects is skipped and the loop goes on with the
\* next one; unless the loop stopped at num_questions before the end, the
\* records and the skipped blocks together are all the blocks, so a text
\* with no acceptable block gives no record and every block skipped.
C17_SkipAndContinue ==
    Parsed =>
        /\ (~Result.stopped \/ Result.attempted = Len(Blocks)) =>
                /\ Len(Result.records) + Len(Result.skipped) = Len(Blocks)
                /\ RecordBlocks \cup SkippedBlocks = 1..Len(Blocks)
        /\ AcceptedBlocks = <<>> => (Result.records = <<>> /\ Len(Result.skipped) = Len(Blocks))

C17_Witness ==
    /\ Parsed /\ ~Result.stopped
    /\ Len(Result.skipped) >= 1 /\ Len(Result.records) >= 1
    /\ Result.skipped[1] < Result.records[1].block

\* C18: at most num_questions records are returned, and they are the first
\* num_questions accepted blocks in text order (all of them when there are
\* fewer).
C18_FirstRequestedInOrder ==
    Parsed =>
        /\ Len(Result.records) <= quiz.num_questions
        /\ [i \in 1..Len(Result.records) |-> Result.records[i].block] = SubSeq(AcceptedBlocks, 1, Min(quiz.num_questions, Len(AcceptedBlocks)))
        /\ \A i \in 1..Len(Result.records) : Result.records[i] = QuestionRecord(Result.records[i].block, ParseBlock(Blocks[Result.records[i].block]))

C18_Witness == Parsed /\ Len(AcceptedBlocks) > quiz.num_questions /\ Len(Result.records) = quiz.num_questions /\ quiz.num_questions >= 2

\* C19: n well-formed blocks in the primary dialect, with or without a
\* preamble, and num_questions = n give n records, the i-th from the i-th
\* block with its question and its declared answer, and no skipped block.
C19_WellFormedPrimaryAllReturned ==
    \A n \in 1..MaxBlocks :
        (Parsed /\ quiz.num_questions = n /\ quiz.raw_output \in {WellFormedText(1, n), <<TextLine(0)>> \o WellFormedText(1, n)}) =>
            /\ Len(Result.records) = n
            /\ Result.skipped = <<>>
            /\ \A i \in 1..n :
                /\ Result.records[i].block = i
                /\ Result.records[i].text = <<TextLine(i)>>
                /\ Result.records[i].answers = {[label |-> l, is_correct |-> (l = "B")] : l \in Labels}

C19_Witness ==
    /\ Parsed /\ quiz.num_questions >= 2
    /\ quiz.raw_output = <<TextLine(0)>> \o WellFormedText(1, quiz.num_questions)
    /\ Len(Result.records) = quiz.num_questions

LabeledBlock(block, forms) ==
    /\ Len(block) = 6
    /\ block[1].k = "text"
    /\ \A j \in 1..4 : block[j + 1].k = "opt" /\ block[j + 1].label = <<"A", "B", "C", "D">>[j] /\ block[j + 1].punct \in Puncts /\ ~block[j + 1].indent
    /\ block[6].k = "correct" /\ block[6].form \in forms /\ block[6].val \in Labels /\ ~block[6].indent

UniformPunct(block) == \A j \in 3..5 : block[j].punct = block[2].punct

\* The record of block i, when there is one.
RecordOf(i) == LET k == CHOOSE k \in 1..Len(Result.records) : Result.records[k].block = i IN Result.records[k]

\* C21 (refuted by the code): a block with a question, the option lines A
\* to D and CORRECT: with a valid letter is accepted whichever punctuation
\* each option line uses, the same on the four lines or not.
C21_AnyPunctuationAccepted ==
    Parsed =>
        \A i \in 1..Result.attempted : LabeledBlock(Blocks[i], {"plain"}) => i \in RecordBlocks

\* C22 (refuted by the code): a block with a question and the option lines
\* A to D under one punctuation is accepted, the declared letter marked
\* correct, whether the letter is declared as CORRECT: B, **CORRECT: B** or
\* CORRECT ANSWER: B.
C22_AnyCorrectFormAccepted ==
    Parsed =>
        \A i \in 1..Result.attempted :
            (LabeledBlock(Blocks[i], {"plain", "md", "answer"}) /\ UniformPunct(Blocks[i])) =>
                /\ i \in RecordBlocks
                /\ {a.label : a \in {x \in RecordOf(i).answers : x.is_correct}} = {Blocks[i][6].val}

\* The text of n well-formed blocks under numbered "Question N" headers.
RECURSIVE SecondaryText(_, _)
SecondaryText(i, n) == IF i > n THEN <<>> ELSE WellFormedLines("Question N", i) \o SecondaryText(i + 1, n)

\* The records are made from the given texts in order, each with the answer
\* B marked correct.
RecordsAre(texts) ==
    /\ Len(Result.records) = Len(texts)
    /\ \A i \in 1..Len(texts) :
        /\ Result.records[i].text = <<TextLine(texts[i])>>
        /\ Result.records[i].answers = {[label |-> l, is_correct |-> (l = "B")] : l \in Labels}

\* C32: the blocks are the pieces between the numbered headers exactly when
\* the text has no QUESTION: marker, else the pieces between the QUESTION:
\* markers from the first on; n well-formed blocks under numbered headers,
\* with or without a preamble, and num_questions = n give n records, the
\* i-th with the question and the declared answer of the i-th block.
C32_SecondaryWhenNoPrimary ==
    Parsed =>
        /\ Blocks = IF HasPrimaryMarker(quiz.raw_output)
                    THEN StripAndDropEmpty(SplitAt(DropUntilHeader(quiz.raw_output, "QUESTION:"), "QUESTION:"))
                    ELSE StripAndDropEmpty(SplitAt(quiz.raw_output, "Question N"))
        /\ \A n \in 1..MaxBlocks :
            (quiz.num_questions = n /\ quiz.raw_output \in {SecondaryText(1, n), <<TextLine(0)>> \o SecondaryText(1, n)}) =>
                RecordsAre([i \in 1..n |-> i])
        /\ (quiz.num_questions >= 1 /\ quiz.raw_output = WellFormedLines("Question N", 1) \o WellFormedLines("QUESTION:", 2)) => RecordsAre(<<2>>)

C32_Witness ==
    /\ Parsed /\ quiz.num_questions >= 2
    /\ quiz.raw_output = SecondaryText(1, quiz.num_questions)
    /\ Len(Result.records) = quiz.num_questions /\ Result.skipped = <<>>

\* The text starts with a line that comes before the first header.
HasPreamble == quiz.raw_output # <<>> /\ Head(quiz.raw_output).k = "text"

\* C33 (refuted by the code): the line before the first header, QUESTION:
\* or numbered, is in no block the loop goes through, so it is in no
\* record and in no skipped block.
C33_PreambleInNoBlock ==
    (Parsed /\ HasPreamble) =>
        /\ \A i \in 1..Len(Blocks) : Head(quiz.raw_output) \notin Range(Blocks[i])
        /\ \A i \in RecordBlocks \cup SkippedBlocks : Head(quiz.raw_output) \notin Range(Blocks[i])

\* The part of C33 that the code has: with a QUESTION: marker in the text
\* the line before the first marker is in no block.
C33_PrimaryPreambleInNoBlock ==
    (Parsed /\ HasPreamble /\ HasPrimaryMarker(quiz.raw_output)) =>
        \A i \in 1..Len(Blocks) : Head(quiz.raw_output) \notin Range(Blocks[i])

====
